---------------------------- MODULE Spec2Model ----------------------------
(***************************************************************************)
(* A model of the CertView harvester: the Store (sync_state.py), the sync  *)
(* engine and its control calls (sync_runner.py, app.py), the CertView     *)
(* client (certview_client.py), the token cache (token_manager.py) and the *)
(* inventory annotation worker (inventory_mapping.py).                     *)
(*                                                                         *)
(* Time stamps are ticks on a reduced calendar: a day has TicksPerDay      *)
(* ticks, a year DaysPerYear days; tick 0 is 1900-01-01T00:00:00Z.  ISO    *)
(* strings of one format order as their instants do, so a validFromDate is *)
(* the tick itself.                                                        *)
(***************************************************************************)
EXTENDS Integers, Sequences, FiniteSets, TLC

VARIABLES
    sync_state,     \* the sync_state table: the row with id 1, or absent
    certificates,   \* the certificates table: id -> row
    upstream,       \* the records CertView holds, in the order it lists them
    page_size,      \* SyncRunner.page_size
    stop_event,     \* SyncRunner._stop_event
    thread,         \* SyncRunner._thread: a worker slot, or NoThread
    worker,         \* the sync worker threads: slot -> position and locals
    caller,         \* the control callers: caller -> position in its call
    budget,         \* control calls each caller may still issue
    ret,            \* what each caller's last call returned
    faults,         \* failures the environment has injected so far
    hist,           \* history of the sweeps (read by the properties only)
    token,          \* TokenManager._token (NoToken: None, or an empty string)
    token_issue_time,   \* TokenManager._token_issue_time
    lock,           \* TokenManager._lock: the thread holding it, or Free
    clock,          \* time.time(), in units of 105 minutes
    issued,         \* tokens the auth endpoint has issued so far
    auth_calls,     \* requests the auth endpoint has received so far
    client,         \* the threads calling the token cache and the client
    reads,          \* the tokens get_token has returned, in order (history)
    a_budget,       \* calls each token thread may still issue
    inventory_mapping,  \* the inventory_mapping table, in row order
    m_thread,       \* InventoryMappingService._thread
    m_is_running,   \* InventoryMappingService._is_running
    mapper,         \* the annotation threads: slot -> position and locals
    m_caller,       \* the callers of start_mapping_process
    m_budget,       \* calls the annotation side may still issue
    m_hist,         \* history of the annotation runs (properties only)
    rows,           \* the certificates table as a list of rows (Store alone)
    pending,        \* the calls the Store is still to receive, in order
    log             \* the upserts that were committed, in order (history)

syncVars == << sync_state, upstream, page_size, stop_event, thread, worker, caller,
               budget, ret, faults, hist >>

authVars == << token, token_issue_time, lock, clock, issued, auth_calls,
               client, reads, a_budget >>

mapVars == << inventory_mapping, m_thread, m_is_running, mapper, m_caller,
              m_budget, m_hist >>

storeVars == << rows, pending, log >>

vars == << syncVars, certificates, authVars, mapVars, storeVars >>

---------------------------------------------------------------------------
(* Bounds of the model *)

TicksPerDay == 2
DaysPerYear == 2
LastYear == 1
NumRecords == 2
PageSize == 1
MaxPageSize == 2
DaysPerMonth == 1
MaxCalls == 3
MaxFaults == 1
MaxClock == 2
MaxTokenCalls == 3
MaxMappings == 2
MaxMapCalls == 5
MaxBatches == 2
MaxBatch == 2
MaxLiveCalls == 2

(* Program constants *)

Anchor == 0
max_attempts == 2

\* REFRESH_INTERVAL, 3.5 hours, in units of 105 minutes
REFRESH_INTERVAL == 2

None == -1

TicksPerYear == TicksPerDay * DaysPerYear
Now == LastYear * TicksPerYear + TicksPerDay
Ticks == 0 .. ((LastYear + 1) * TicksPerYear - 1)
Ids == 1 .. NumRecords

Callers == {"c1", "c2"}
Workers == {1, 2}
NoThread == 0

Outcomes == IF faults < MaxFaults THEN {TRUE, FALSE} ELSE {TRUE}
Fault(ok) == IF ok THEN faults ELSE faults + 1

---------------------------------------------------------------------------
(* Calendar: datetime.year, datetime(y, 1, 1), datetime(y, 12, 31, 23, 59, 59) *)

Year(t) == t \div TicksPerYear
YearStart(y) == y * TicksPerYear
YearEnd(y) == (y + 1) * TicksPerYear - 1
Day(t) == t \div TicksPerDay

Min(a, b) == IF a < b THEN a ELSE b
Max(a, b) == IF a < b THEN b ELSE a

---------------------------------------------------------------------------
(* Store: SyncStateManager *)

NoRow == [present |-> FALSE, vfd |-> Anchor, total |-> 0, status |-> "STOPPED"]
Defaults == [vfd |-> Anchor, total |-> 0, status |-> "STOPPED"]

\* get_state: the row's fields; the defaults when the row is absent or the read fails
get_state(row, ok) ==
    IF ok /\ row.present
    THEN [vfd |-> row.vfd, total |-> row.total, status |-> row.status]
    ELSE Defaults

\* save_state: a partial update of the row (None / "" leave a field alone); the
\* row is created with the column defaults when absent
save_state(row, valid_from_date, total_records, status) ==
    LET state == IF row.present THEN row ELSE [NoRow EXCEPT !.present = TRUE]
    IN  [state EXCEPT
            !.vfd = IF valid_from_date # None THEN valid_from_date ELSE @,
            !.total = IF total_records # None THEN total_records ELSE @,
            !.status = IF status # "" THEN status ELSE @]

\* a failing save_state logs, rolls back and returns normally
save_state_try(row, valid_from_date, total_records, status, ok) ==
    IF ok THEN save_state(row, valid_from_date, total_records, status) ELSE row

NoCert == [present |-> FALSE, validFromDate |-> None, serialNumber |-> None,
           mapped_to_mip |-> FALSE, mip_status |-> "Unknown"]

Get(d, key) == IF key \in DOMAIN d THEN d[key] ELSE None

\* upsert, were the annotation columns written like the other columns
upsert_overwriting(table, cert_data) ==
    LET cert_id == Get(cert_data, "id")
        cert == IF table[cert_id].present THEN table[cert_id]
                ELSE [NoCert EXCEPT !.present = TRUE]
    IN  IF cert_id = None \/ cert_id = 0 THEN table
        ELSE [table EXCEPT ![cert_id] =
                [cert EXCEPT
                    !.validFromDate = Get(cert_data, "validFromDate"),
                    !.serialNumber = Get(cert_data, "serialNumber"),
                    !.mapped_to_mip = IF "mapped_to_mip" \in DOMAIN cert_data
                                      THEN cert_data["mapped_to_mip"]
                                      ELSE FALSE,
                    !.mip_status = "Unknown"]]

\* one iteration of save_certificates' loop
upsert(table, cert_data) ==
    LET cert_id == Get(cert_data, "id")
        cert == IF table[cert_id].present THEN table[cert_id]
                ELSE [NoCert EXCEPT !.present = TRUE]
    IN  IF cert_id = None \/ cert_id = 0 THEN table
        ELSE [table EXCEPT ![cert_id] =
                [cert EXCEPT
                    !.validFromDate = Get(cert_data, "validFromDate"),
                    !.serialNumber = Get(cert_data, "serialNumber"),
                    !.mapped_to_mip = IF "mapped_to_mip" \in DOMAIN cert_data
                                      THEN cert_data["mapped_to_mip"] ELSE @,
                    !.mip_status = IF "mip_status" \in DOMAIN cert_data
                                   THEN cert_data["mip_status"] ELSE @]]

RECURSIVE save_certificates(_, _)
save_certificates(table, certs) ==
    IF certs = << >> THEN table
    ELSE save_certificates(upsert(table, Head(certs)), Tail(certs))

\* clear_data: both tables emptied; a failure is logged and swallowed
NoCerts == [i \in Ids |-> NoCert]

---------------------------------------------------------------------------
(* CertView: the list endpoint and the client *)

RECURSIVE SelectSeq2(_, _, _)
SelectSeq2(s, lo, hi) ==
    IF s = << >> THEN << >>
    ELSE IF lo <= Head(s).validFromDate /\ Head(s).validFromDate <= hi
         THEN << Head(s) >> \o SelectSeq2(Tail(s), lo, hi)
         ELSE SelectSeq2(Tail(s), lo, hi)

\* the page the list endpoint answers: the records of the window, in the
\* upstream's order, cut into pages of pageSize
UpstreamPage(start_date, end_date, page_number, pageSize) ==
    LET hits == SelectSeq2(upstream, start_date, end_date)
        first == page_number * pageSize + 1
        last == Min(Len(hits), (page_number + 1) * pageSize)
    IN  IF first > Len(hits) THEN << >> ELSE SubSeq(hits, first, last)

\* what one attempt of fetch_certificates gets: the token cache raises, or the
\* endpoint answers 200, 401/403, another status, or the transport fails
Responses == {"200", "401", "500", "timeout", "tokfail"}

\* the body of the attempts loop for one response
ClientAttempt(attempts, resp) ==
    CASE resp = "tokfail" -> "raise"
      [] resp = "401" -> "continue"
      [] resp = "200" -> "return"
      [] OTHER -> IF attempts = max_attempts THEN "raise" ELSE "retry"

\* fetch_certificates over the responses its attempts get
RECURSIVE fetch_loop(_, _)
fetch_loop(attempts, resps) ==
    IF ~(attempts < max_attempts) THEN "empty"
    ELSE LET a == attempts + 1
             k == ClientAttempt(a, resps[a])
         IN  CASE k = "return" -> "json"
               [] k = "raise" -> "raise"
               [] OTHER -> fetch_loop(a, resps)

fetch_certificates(resps) == fetch_loop(0, resps)

\* what a call of fetch_certificates can come to, and whether it met no failure
FetchOutcomes ==
    { [res |-> fetch_certificates(resps), clean |-> resps[1] = "200"] :
        resps \in [1 .. max_attempts -> Responses] }

---------------------------------------------------------------------------
(* Sync engine: SyncRunner *)

DeadWorker == [pc |-> "dead", start_dt |-> 0, year |-> 0, page |-> 0,
               data |-> << >>, total_so_far |-> 0]

alive(w) == worker[w].pc \notin {"dead", "created"}

is_running == thread # NoThread /\ alive(thread)

\* the empty string
EmptyText == -2

\* req_field(d, key): d.get(key, '')
req_field(d, key) == IF key \in DOMAIN d THEN d[key] ELSE EmptyText

\* _normalize_cert: the fixed keys, each read with raw.get; the local certhash
\* (line 178, with its fallback to sha1) is computed and not used
_normalize_cert(raw) ==
    LET certhash == IF "certhash" \in DOMAIN raw THEN raw["certhash"]
                    ELSE req_field(raw, "sha1")
    IN  [id |-> Get(raw, "id"),
         certhash |-> Get(raw, "certhash"),
         serialNumber |-> Get(raw, "serialNumber"),
         validFromDate |-> Get(raw, "validFromDate")]

RECURSIVE Normalized(_)
Normalized(data) ==
    IF data = << >> THEN << >>
    ELSE << _normalize_cert(Head(data)) >> \o Normalized(Tail(data))

RECURSIVE MaxDate(_)
MaxDate(certs) ==
    IF Len(certs) = 1 THEN Head(certs).validFromDate
    ELSE Max(Head(certs).validFromDate, MaxDate(Tail(certs)))

\* the window of the year a worker is in
year_start(w) ==
    IF worker[w].year = Year(worker[w].start_dt) THEN worker[w].start_dt
    ELSE YearStart(worker[w].year)
year_end(w) == Min(YearEnd(worker[w].year), Now)

\* History: ops, the control calls that were accepted, in order; per worker,
\* wfail (a Store write of its sweep failed) and prevCk, lastCk (the last two
\* checkpoints its sweep wrote); bdays, the days of the checkpoints sweeps were
\* resumed from; between (the stop signal was set between two pages, and
\* whether a page was fetched after it); page, the checkpoint of the last
\* page whose upsert committed; per worker, upserted, the page whose upsert
\* has committed and whose checkpoint is not written yet
NoHist == [ops |-> << >>,
           wfail |-> [w \in Workers |-> FALSE],
           prevCk |-> [w \in Workers |-> None],
           lastCk |-> [w \in Workers |-> None],
           bdays |-> {},
           between |-> "no",
           page |-> [vfd |-> None, total |-> None],
           upserted |-> [w \in Workers |-> << >>]]

Called(op) == [hist EXCEPT !.ops = Append(@, op), !.between = "no"]

Budget(c) == budget' = [budget EXCEPT ![c] = @ - 1]
Return(c, v) == /\ caller' = [caller EXCEPT ![c] = "idle"]
                /\ ret' = [ret EXCEPT ![c] = v]
Goto(c, pc) == /\ caller' = [caller EXCEPT ![c] = pc]
               /\ UNCHANGED ret

\* start_full_sync, line 19: the is_running check
start_full_sync(c) ==
    /\ caller[c] = "idle" /\ budget[c] > 0
    /\ Budget(c)
    /\ IF is_running
       THEN Return(c, "False") /\ UNCHANGED hist
       ELSE Goto(c, "s_clear") /\ hist' = Called("start")
    /\ UNCHANGED << authVars, mapVars, storeVars >>
    /\ UNCHANGED << sync_state, certificates, upstream, page_size, stop_event, thread,
                    worker, faults >>

\* line 23: clear_data
start_full_sync_clear(c) ==
    /\ caller[c] = "s_clear"
    /\ \E ok \in Outcomes :
        /\ sync_state' = IF ok THEN NoRow ELSE sync_state
        /\ certificates' = IF ok THEN NoCerts ELSE certificates
        /\ faults' = Fault(ok)
    /\ Goto(c, "s_event")
    /\ UNCHANGED << authVars, mapVars, storeVars >>
    /\ UNCHANGED << upstream, page_size, stop_event, thread, worker, budget, hist >>

\* line 24: _stop_event.clear()
start_full_sync_event(c) ==
    /\ caller[c] = "s_event"
    /\ stop_event' = FALSE
    /\ Goto(c, "s_save")
    /\ UNCHANGED << authVars, mapVars, storeVars >>
    /\ UNCHANGED << sync_state, certificates, upstream, page_size, thread, worker,
                    budget, faults, hist >>

\* lines 27-31: the initial state
start_full_sync_save(c) ==
    /\ caller[c] = "s_save"
    /\ \E ok \in Outcomes :
        /\ sync_state' = save_state_try(sync_state, Anchor, 0, "RUNNING", ok)
        /\ faults' = Fault(ok)
    /\ Goto(c, "new_thread")
    /\ UNCHANGED << authVars, mapVars, storeVars >>
    /\ UNCHANGED << certificates, upstream, page_size, stop_event, thread, worker,
                    budget, hist >>

\* resume_sync, line 39: the is_running check
resume_sync(c) ==
    /\ caller[c] = "idle" /\ budget[c] > 0
    /\ Budget(c)
    /\ IF is_running
       THEN Return(c, "False") /\ UNCHANGED hist
       ELSE /\ Goto(c, "r_event")
            /\ hist' = [Called("resume") EXCEPT
                            !.bdays = @ \cup {Day(get_state(sync_state, TRUE).vfd)}]
    /\ UNCHANGED << authVars, mapVars, storeVars >>
    /\ UNCHANGED << sync_state, certificates, upstream, page_size, stop_event, thread,
                    worker, faults >>

\* line 43: _stop_event.clear()
resume_sync_event(c) ==
    /\ caller[c] = "r_event"
    /\ stop_event' = FALSE
    /\ Goto(c, "r_save")
    /\ UNCHANGED << authVars, mapVars, storeVars >>
    /\ UNCHANGED << sync_state, certificates, upstream, page_size, thread, worker,
                    budget, faults, hist >>

\* line 44: save_state(status="RUNNING")
resume_sync_save(c) ==
    /\ caller[c] = "r_save"
    /\ \E ok \in Outcomes :
        /\ sync_state' = save_state_try(sync_state, None, None, "RUNNING", ok)
        /\ faults' = Fault(ok)
    /\ Goto(c, "new_thread")
    /\ UNCHANGED << authVars, mapVars, storeVars >>
    /\ UNCHANGED << certificates, upstream, page_size, stop_event, thread, worker,
                    budget, hist >>

\* lines 33 and 46: self._thread = threading.Thread(...); a thread object
\* nobody refers to any more is dropped
new_thread(c) ==
    /\ caller[c] = "new_thread"
    /\ \E w \in Workers :
        /\ worker[w].pc = "dead"
        /\ \A v \in Workers : worker[v].pc = "dead" => ~(v < w)
        /\ thread' = w
        /\ worker' = [v \in Workers |->
                        IF v = w THEN [DeadWorker EXCEPT !.pc = "created"]
                        ELSE IF v = thread /\ worker[v].pc = "created"
                             THEN DeadWorker
                             ELSE worker[v]]
        /\ hist' = [hist EXCEPT !.wfail[w] = FALSE, !.prevCk[w] = None,
                                    !.lastCk[w] = None]
    /\ Goto(c, "thread_start")
    /\ UNCHANGED << authVars, mapVars, storeVars >>
    /\ UNCHANGED << sync_state, certificates, upstream, page_size, stop_event, budget,
                    faults >>

\* lines 34 and 47: self._thread.start(); starting a started thread raises
thread_start(c) ==
    /\ caller[c] = "thread_start"
    /\ IF worker[thread].pc = "created"
       THEN /\ worker' = [worker EXCEPT ![thread].pc = "begin"]
            /\ Return(c, "True")
       ELSE /\ UNCHANGED worker
            /\ Return(c, "raise")
    /\ UNCHANGED << authVars, mapVars, storeVars >>
    /\ UNCHANGED << sync_state, certificates, upstream, page_size, stop_event, thread,
                    budget, faults, hist >>

\* stop_sync, line 52: _stop_event.set()
stop_sync(c) ==
    /\ caller[c] = "idle" /\ budget[c] > 0
    /\ Budget(c)
    /\ stop_event' = TRUE
    /\ Goto(c, "t_join")
    /\ hist' = [Called("stop") EXCEPT
                    !.between = IF /\ is_running
                                   /\ worker[thread].pc = "page_check"
                                   /\ worker[thread].page > 0
                                THEN "set" ELSE "no"]
    /\ UNCHANGED << authVars, mapVars, storeVars >>
    /\ UNCHANGED << sync_state, certificates, upstream, page_size, thread, worker,
                    faults >>

\* lines 53-54: join(timeout=5) returns when the thread is dead or the
\* timeout has passed; joining a thread that was not started raises
stop_sync_join(c) ==
    /\ caller[c] = "t_join"
    /\ IF thread # NoThread /\ worker[thread].pc = "created"
       THEN Return(c, "raise")
       ELSE Goto(c, "t_save")
    /\ UNCHANGED << authVars, mapVars, storeVars >>
    /\ UNCHANGED << sync_state, certificates, upstream, page_size, stop_event, thread,
                    worker, budget, faults, hist >>

\* line 55: save_state(status="STOPPED")
stop_sync_save(c) ==
    /\ caller[c] = "t_save"
    /\ \E ok \in Outcomes :
        /\ sync_state' = save_state_try(sync_state, None, None, "STOPPED", ok)
        /\ faults' = Fault(ok)
    /\ Return(c, "None")
    /\ UNCHANGED << authVars, mapVars, storeVars >>
    /\ UNCHANGED << certificates, upstream, page_size, stop_event, thread, worker,
                    budget, hist >>

\* reset_state (app.py), line 133: the is_running check
reset_state(c) ==
    /\ caller[c] = "idle" /\ budget[c] > 0
    /\ Budget(c)
    /\ IF is_running
       THEN Return(c, "400") /\ UNCHANGED hist
       ELSE Goto(c, "x_clear") /\ hist' = Called("reset")
    /\ UNCHANGED << authVars, mapVars, storeVars >>
    /\ UNCHANGED << sync_state, certificates, upstream, page_size, stop_event, thread,
                    worker, faults >>

\* line 135: clear_data
reset_state_clear(c) ==
    /\ caller[c] = "x_clear"
    /\ \E ok \in Outcomes :
        /\ sync_state' = IF ok THEN NoRow ELSE sync_state
        /\ certificates' = IF ok THEN NoCerts ELSE certificates
        /\ faults' = Fault(ok)
    /\ Return(c, "200")
    /\ UNCHANGED << authVars, mapVars, storeVars >>
    /\ UNCHANGED << upstream, page_size, stop_event, thread, worker, budget, hist >>

---------------------------------------------------------------------------
(* _run_sync_loop, one action per step of the worker thread *)

Step(w, rec) == worker' = [worker EXCEPT ![w] = rec]

\* leaving the pagination loop, were current_year left as it is
NextYear_same_year(w) == [worker[w] EXCEPT !.pc = "year_check",
                                           !.page = 0, !.data = << >>,
                                           !.total_so_far = 0]

\* leaving the pagination loop: current_year += 1, back to the outer test
NextYear(w) == [worker[w] EXCEPT !.pc = "year_check", !.year = @ + 1,
                                 !.page = 0, !.data = << >>,
                                 !.total_so_far = 0]

\* lines 63-90: read the checkpoint, start one day after it
loop_begin(w) ==
    /\ worker[w].pc = "begin"
    /\ \E ok \in Outcomes :
        LET state == get_state(sync_state, ok)
            start_dt == state.vfd + TicksPerDay
        IN  /\ Step(w, [worker[w] EXCEPT !.pc = "year_check",
                                         !.start_dt = start_dt,
                                         !.year = Year(start_dt)])
            /\ faults' = Fault(ok)
    /\ UNCHANGED << authVars, mapVars, storeVars >>
    /\ UNCHANGED << sync_state, certificates, upstream, page_size, stop_event, thread,
                    caller, budget, ret, hist >>

\* line 92: while current_year <= target_year and not stopped
loop_year_check(w) ==
    /\ worker[w].pc = "year_check"
    /\ IF worker[w].year <= Year(Now) /\ ~stop_event
       THEN Step(w, [worker[w] EXCEPT !.pc = "page_check", !.page = 0])
       ELSE Step(w, [worker[w] EXCEPT !.pc = "finish"])
    /\ UNCHANGED << authVars, mapVars, storeVars >>
    /\ UNCHANGED << sync_state, certificates, upstream, page_size, stop_event, thread,
                    caller, budget, ret, faults, hist >>

\* line 115: while not stopped
loop_page_check(w) ==
    /\ worker[w].pc = "page_check"
    /\ IF ~stop_event
       THEN Step(w, [worker[w] EXCEPT !.pc = "fetch"])
       ELSE Step(w, NextYear(w))
    /\ UNCHANGED << authVars, mapVars, storeVars >>
    /\ UNCHANGED << sync_state, certificates, upstream, page_size, stop_event, thread,
                    caller, budget, ret, faults, hist >>

\* lines 118-126: fetch one page; an empty answer ends the window, an
\* exception ends the sweep
loop_fetch(w) ==
    /\ worker[w].pc = "fetch"
    /\ \E out \in FetchOutcomes :
        LET res == out.res
            ok == out.clean
            data == IF res = "json"
                    THEN UpstreamPage(year_start(w), year_end(w),
                                      worker[w].page, page_size)
                    ELSE << >>
        IN  /\ ok \/ faults < MaxFaults
            /\ faults' = Fault(ok)
            /\ IF res = "raise"
               THEN Step(w, [worker[w] EXCEPT !.pc = "error"])
               ELSE IF data = << >>
               THEN Step(w, NextYear(w))
               ELSE Step(w, [worker[w] EXCEPT !.pc = "save_certs",
                                              !.data = data])
    /\ hist' = [hist EXCEPT !.between = IF @ = "set" THEN "fetched" ELSE @]
    /\ UNCHANGED << authVars, mapVars, storeVars >>
    /\ UNCHANGED << sync_state, certificates, upstream, page_size, stop_event, thread,
                    caller, budget, ret >>

\* the upsert of the page, were its failure logged and the loop to go on
loop_save_certs_swallowing(w) ==
    /\ worker[w].pc = "save_certs"
    /\ \E ok \in Outcomes :
        /\ faults' = Fault(ok)
        /\ IF ok
           THEN /\ certificates' = save_certificates(certificates,
                                                    Normalized(worker[w].data))
                /\ Step(w, [worker[w] EXCEPT !.pc = "get_total"])
                /\ hist' = [hist EXCEPT !.page =
                        [vfd |-> MaxDate(Normalized(worker[w].data)),
                         total |-> get_state(sync_state, TRUE).total
                                   + Len(worker[w].data)],
                                        !.upserted[w] = worker[w].data]
           ELSE /\ UNCHANGED certificates
                /\ Step(w, [worker[w] EXCEPT !.pc = "get_total"])
                /\ hist' = [hist EXCEPT !.wfail[w] = TRUE]
    /\ UNCHANGED << authVars, mapVars, storeVars >>
    /\ UNCHANGED << sync_state, upstream, page_size, stop_event, thread, caller, budget,
                    ret >>

\* lines 129-130: normalize and upsert the page; a failure rolls back and raises
loop_save_certs(w) ==
    /\ worker[w].pc = "save_certs"
    /\ \E ok \in Outcomes :
        /\ faults' = Fault(ok)
        /\ IF ok
           THEN /\ certificates' = save_certificates(certificates,
                                                    Normalized(worker[w].data))
                /\ Step(w, [worker[w] EXCEPT !.pc = "get_total"])
                /\ hist' = [hist EXCEPT !.page =
                        [vfd |-> MaxDate(Normalized(worker[w].data)),
                         total |-> get_state(sync_state, TRUE).total
                                   + Len(worker[w].data)],
                                        !.upserted[w] = worker[w].data]
           ELSE /\ UNCHANGED certificates
                /\ Step(w, [worker[w] EXCEPT !.pc = "error"])
                /\ hist' = [hist EXCEPT !.wfail[w] = TRUE]
    /\ UNCHANGED << authVars, mapVars, storeVars >>
    /\ UNCHANGED << sync_state, upstream, page_size, stop_event, thread, caller, budget,
                    ret >>

\* line 138: total_so_far = get_state()['total_records_collected']
loop_get_total(w) ==
    /\ worker[w].pc = "get_total"
    /\ \E ok \in Outcomes :
        /\ faults' = Fault(ok)
        /\ Step(w, [worker[w] EXCEPT
                        !.pc = "save_ckpt",
                        !.total_so_far = get_state(sync_state, ok).total])
    /\ UNCHANGED << authVars, mapVars, storeVars >>
    /\ UNCHANGED << sync_state, certificates, upstream, page_size, stop_event, thread,
                    caller, budget, ret, hist >>

\* the checkpoint write, were page_number left as it is after a full page
loop_save_ckpt_same_page(w) ==
    /\ worker[w].pc = "save_ckpt"
    /\ LET certs == Normalized(worker[w].data)
           count_returned == Len(worker[w].data)
       IN  /\ \E ok \in Outcomes :
                /\ faults' = Fault(ok)
                /\ sync_state' = save_state_try(sync_state, MaxDate(certs),
                                    worker[w].total_so_far + count_returned,
                                    "", ok)
                /\ hist' = IF ok
                           THEN [hist EXCEPT !.prevCk[w] = hist.lastCk[w],
                                             !.lastCk[w] = MaxDate(certs),
                                             !.upserted[w] = << >>]
                           ELSE [hist EXCEPT !.wfail[w] = TRUE,
                                             !.upserted[w] = << >>]
           /\ IF count_returned < page_size
              THEN Step(w, NextYear(w))
              ELSE Step(w, [worker[w] EXCEPT !.pc = "page_check",
                                             !.data = << >>,
                                             !.total_so_far = 0])
    /\ UNCHANGED << authVars, mapVars, storeVars >>
    /\ UNCHANGED << certificates, upstream, page_size, stop_event, thread, caller,
                    budget, ret >>

\* lines 134-146: write the checkpoint, then end the window on a short page
loop_save_ckpt(w) ==
    /\ worker[w].pc = "save_ckpt"
    /\ LET certs == Normalized(worker[w].data)
           count_returned == Len(worker[w].data)
       IN  /\ \E ok \in Outcomes :
                /\ faults' = Fault(ok)
                /\ sync_state' = save_state_try(sync_state, MaxDate(certs),
                                    worker[w].total_so_far + count_returned,
                                    "", ok)
                /\ hist' = IF ok
                           THEN [hist EXCEPT !.prevCk[w] = hist.lastCk[w],
                                             !.lastCk[w] = MaxDate(certs),
                                             !.upserted[w] = << >>]
                           ELSE [hist EXCEPT !.wfail[w] = TRUE,
                                             !.upserted[w] = << >>]
           /\ IF count_returned < page_size
              THEN Step(w, NextYear(w))
              ELSE Step(w, [worker[w] EXCEPT !.pc = "page_check",
                                             !.page = @ + 1,
                                             !.data = << >>,
                                             !.total_so_far = 0])
    /\ UNCHANGED << authVars, mapVars, storeVars >>
    /\ UNCHANGED << certificates, upstream, page_size, stop_event, thread, caller,
                    budget, ret >>

\* lines 148-157: save_state(status="ERROR"); return
loop_error(w) ==
    /\ worker[w].pc = "error"
    /\ \E ok \in Outcomes :
        /\ faults' = Fault(ok)
        /\ sync_state' = save_state_try(sync_state, None, None, "ERROR", ok)
        /\ hist' = IF ok THEN hist ELSE [hist EXCEPT !.wfail[w] = TRUE]
    /\ Step(w, DeadWorker)
    /\ UNCHANGED << authVars, mapVars, storeVars >>
    /\ UNCHANGED << certificates, upstream, page_size, stop_event, thread, caller,
                    budget, ret >>

\* lines 161-162: COMPLETED unless stopped
loop_finish(w) ==
    /\ worker[w].pc = "finish"
    /\ IF ~stop_event
       THEN \E ok \in Outcomes :
                /\ faults' = Fault(ok)
                /\ sync_state' = save_state_try(sync_state, None, None,
                                                "COMPLETED", ok)
                /\ hist' = IF ok THEN hist ELSE [hist EXCEPT !.wfail[w] = TRUE]
       ELSE UNCHANGED << sync_state, faults, hist >>
    /\ Step(w, DeadWorker)
    /\ UNCHANGED << authVars, mapVars, storeVars >>
    /\ UNCHANGED << certificates, upstream, page_size, stop_event, thread, caller,
                    budget, ret >>

---------------------------------------------------------------------------

RawRecords == [id : Ids, validFromDate : Ticks, serialNumber : Ids]

\* upstreams: up to NumRecords records, ids 1, 2, ... in listing order
Upstreams ==
    UNION { { s \in [1 .. n -> RawRecords] :
                \A i \in 1 .. n : s[i].id = i /\ s[i].serialNumber = i }
            : n \in 0 .. NumRecords }

---------------------------------------------------------------------------
(* Token cache (TokenManager) and the client's attempts loop, thread by thread *)

NoToken == 0
Free == "free"
Threads == {"t1", "t2"}

IdleClient == [pc |-> "idle", op |-> "none", force |-> FALSE, attempts |-> 0,
               auth_failures |-> 0, result |-> "none", awaited |-> None,
               got |-> None]

\* CacheFresh, were the interval one half hour shorter
CacheFreshShort(force_refresh, now) ==
    /\ token # NoToken
    /\ ~force_refresh
    /\ now - token_issue_time < REFRESH_INTERVAL - 1

\* get_token, lines 36-39: the cached token is returned
CacheFresh(force_refresh, now) ==
    /\ token # NoToken
    /\ ~force_refresh
    /\ now - token_issue_time < REFRESH_INTERVAL

\* a call is over: its result, and its locals gone
Ended(st, result) ==
    [st EXCEPT !.pc = "idle", !.result = result, !.force = FALSE,
               !.attempts = 0]

\* get_token returns v to its caller: the call is over, or the client's
\* attempt goes on to its request
Returned(st, v) ==
    IF st.op = "get_token"
    THEN Ended([st EXCEPT !.got = v], "token")
    ELSE [st EXCEPT !.pc = "fc_post", !.got = v]

\* time passes
Tick ==
    /\ clock < MaxClock
    /\ clock' = clock + 1
    /\ UNCHANGED << token, token_issue_time, lock, issued, auth_calls, client,
                    reads >>
    /\ UNCHANGED << a_budget, syncVars, certificates, mapVars, storeVars >>

\* a thread calls get_token(force_refresh) itself
get_token(t, force_refresh) ==
    /\ client[t].pc = "idle"
    /\ a_budget[t] > 0
    /\ a_budget' = [a_budget EXCEPT ![t] = @ - 1]
    /\ client' = [client EXCEPT ![t] =
                    [IdleClient EXCEPT !.pc = "gt_wait", !.op = "get_token",
                                       !.force = force_refresh]]
    /\ UNCHANGED << token, token_issue_time, lock, clock, issued, auth_calls,
                    reads >>
    /\ UNCHANGED << syncVars, certificates, mapVars, storeVars >>

\* get_token_lock, were there no lock to take
get_token_unlocked(t) ==
    /\ client[t].pc = "gt_wait"
    /\ IF CacheFresh(client[t].force, clock)
       THEN /\ client' = [client EXCEPT ![t] = Returned(@, token)]
            /\ reads' = Append(reads, [at |-> clock, tok |-> token,
                                       force |-> client[t].force,
                                       iss |-> token_issue_time])
            /\ UNCHANGED lock
       ELSE /\ client' = [client EXCEPT ![t].pc = "gt_fetch"]
            /\ lock' = t
            /\ UNCHANGED reads
    /\ UNCHANGED << token, token_issue_time, clock, issued, auth_calls >>
    /\ UNCHANGED << a_budget, syncVars, certificates, mapVars, storeVars >>

\* lines 34-39: the lock is taken; a fresh cached token is returned and the
\* lock released, otherwise the thread goes on to fetch, holding the lock
get_token_lock(t) ==
    /\ client[t].pc = "gt_wait"
    /\ lock = Free
    /\ IF CacheFresh(client[t].force, clock)
       THEN /\ client' = [client EXCEPT ![t] = Returned(@, token)]
            /\ reads' = Append(reads, [at |-> clock, tok |-> token,
                                       force |-> client[t].force,
                                       iss |-> token_issue_time])
            /\ UNCHANGED lock
       ELSE /\ client' = [client EXCEPT ![t].pc = "gt_fetch"]
            /\ lock' = t
            /\ UNCHANGED reads
    /\ UNCHANGED << token, token_issue_time, clock, issued, auth_calls >>
    /\ UNCHANGED << a_budget, syncVars, certificates, mapVars, storeVars >>

\* get_token_fetch, were the cached token dropped before the request is made
get_token_fetch_dropping(t) ==
    /\ client[t].pc = "gt_fetch"
    /\ auth_calls' = auth_calls + 1
    /\ lock' = Free
    /\ \E answer \in {"token", "empty", "raise"} :
        IF answer = "raise"
        THEN /\ client' = [client EXCEPT ![t] = Ended(@, "raise")]
             /\ token' = NoToken
             /\ UNCHANGED << token_issue_time, issued, reads >>
        ELSE LET new == IF answer = "token" THEN issued + 1 ELSE NoToken
             IN  /\ token' = new
                 /\ token_issue_time' = clock
                 /\ issued' = IF answer = "token" THEN issued + 1 ELSE issued
                 /\ reads' = Append(reads, [at |-> clock, tok |-> new,
                                            force |-> client[t].force,
                                            iss |-> clock])
                 /\ client' = [u \in Threads |->
                        IF u = t THEN Returned(client[u], new)
                        ELSE IF client[u].pc = "gt_wait" /\ answer = "token"
                             THEN [client[u] EXCEPT !.awaited = new]
                             ELSE client[u]]
    /\ UNCHANGED clock
    /\ UNCHANGED << a_budget, syncVars, certificates, mapVars, storeVars >>

\* lines 43-45 and _fetch_new_token: the auth endpoint answers a new token or
\* an empty body, or the request fails and the exception leaves get_token; the
\* lock is released either way.  The threads that waited for the lock during
\* a refresh that issued a token are noted with that token.
get_token_fetch(t) ==
    /\ client[t].pc = "gt_fetch"
    /\ auth_calls' = auth_calls + 1
    /\ lock' = Free
    /\ \E answer \in {"token", "empty", "raise"} :
        IF answer = "raise"
        THEN /\ client' = [client EXCEPT ![t] = Ended(@, "raise")]
             /\ UNCHANGED << token, token_issue_time, issued, reads >>
        ELSE LET new == IF answer = "token" THEN issued + 1 ELSE NoToken
             IN  /\ token' = new
                 /\ token_issue_time' = clock
                 /\ issued' = IF answer = "token" THEN issued + 1 ELSE issued
                 /\ reads' = Append(reads, [at |-> clock, tok |-> new,
                                            force |-> client[t].force,
                                            iss |-> clock])
                 /\ client' = [u \in Threads |->
                        IF u = t THEN Returned(client[u], new)
                        ELSE IF client[u].pc = "gt_wait" /\ answer = "token"
                             THEN [client[u] EXCEPT !.awaited = new]
                             ELSE client[u]]
    /\ UNCHANGED clock
    /\ UNCHANGED << a_budget, syncVars, certificates, mapVars, storeVars >>

\* fetch_certificates is called: lines 42-43
fetch_certificates_call(t) ==
    /\ client[t].pc = "idle"
    /\ a_budget[t] > 0
    /\ a_budget' = [a_budget EXCEPT ![t] = @ - 1]
    /\ client' = [client EXCEPT ![t] =
                    [IdleClient EXCEPT !.pc = "fc_loop", !.op = "fetch"]]
    /\ UNCHANGED << token, token_issue_time, lock, clock, issued, auth_calls,
                    reads >>
    /\ UNCHANGED << syncVars, certificates, mapVars, storeVars >>

\* fetch_certificates_loop, were the retry's token not forced
fetch_certificates_loop_unforced(t) ==
    /\ client[t].pc = "fc_loop"
    /\ IF client[t].attempts < max_attempts
       THEN client' = [client EXCEPT ![t] =
                [@ EXCEPT !.pc = "gt_wait", !.attempts = @ + 1,
                          !.force = FALSE,
                          !.awaited = None, !.got = None]]
       ELSE client' = [client EXCEPT ![t] = Ended(@, "empty")]
    /\ UNCHANGED << token, token_issue_time, lock, clock, issued, auth_calls,
                    reads >>
    /\ UNCHANGED << a_budget, syncVars, certificates, mapVars, storeVars >>

\* lines 45-47: the loop test, then get_token(force_refresh=(attempts > 1));
\* line 70: return [] when the attempts are used up
fetch_certificates_loop(t) ==
    /\ client[t].pc = "fc_loop"
    /\ IF client[t].attempts < max_attempts
       THEN client' = [client EXCEPT ![t] =
                [@ EXCEPT !.pc = "gt_wait", !.attempts = @ + 1,
                          !.force = (client[t].attempts + 1 > 1),
                          !.awaited = None, !.got = None]]
       ELSE client' = [client EXCEPT ![t] = Ended(@, "empty")]
    /\ UNCHANGED << token, token_issue_time, lock, clock, issued, auth_calls,
                    reads >>
    /\ UNCHANGED << a_budget, syncVars, certificates, mapVars, storeVars >>

\* lines 54-68: the request of one attempt and what its response leads to;
\* auth_failures counts the 401/403 responses the call has got
fetch_certificates_post(t) ==
    /\ client[t].pc = "fc_post"
    /\ \E resp \in Responses \ {"tokfail"} :
        LET k == ClientAttempt(client[t].attempts, resp)
            st == [client[t] EXCEPT !.auth_failures =
                                        IF resp = "401" THEN @ + 1 ELSE @]
        IN  client' = [client EXCEPT ![t] =
                CASE k = "return" -> Ended(st, "json")
                  [] k = "raise" -> Ended(st, "raise")
                  [] OTHER -> [st EXCEPT !.pc = "fc_loop"]]
    /\ UNCHANGED << token, token_issue_time, lock, clock, issued, auth_calls,
                    reads >>
    /\ UNCHANGED << a_budget, syncVars, certificates, mapVars, storeVars >>

---------------------------------------------------------------------------
(* Inventory annotation: InventoryMappingService, and the catalog upserts and
   resets that run beside it *)

Mappers == {1, 2}
Statuses == {"Active", "Retired"}

DeadMapper == [pc |-> "dead", mappings |-> << >>, i |-> 0, cert |-> None]

m_alive(m) == mapper[m].pc \notin {"dead", "created"}

\* the sheets save_mapping_data reads: rows of (serial number, status)
MappingRows == [serial_number : Ids, certificate_status : Statuses]
Sheets == UNION { [1 .. n -> MappingRows] : n \in 1 .. MaxMappings }

\* the records a page of the list endpoint may carry; the endpoint is free to
\* send keys of its own beside the documented ones
MapRecords ==
    LET plain == { r \in RawRecords : r.validFromDate = Anchor + TicksPerDay }
    IN  plain \cup { [id |-> r.id, validFromDate |-> r.validFromDate,
                      serialNumber |-> r.serialNumber,
                      mapped_to_mip |-> FALSE] : r \in plain }

\* History: seen, the ids an upsert re-observed while they were annotated;
\* kept, the ids the annotation loop found annotated and left alone; raced, two
\* apply threads were alive at once
NoMapHist == [seen |-> {}, kept |-> {}, raced |-> FALSE]

MapCall == /\ m_budget > 0
           /\ m_budget' = m_budget - 1

\* save_mapping_data: the table is truncated and the sheet's rows inserted; a
\* failure after the truncation's commit leaves the table empty
save_mapping_data ==
    /\ MapCall
    /\ \E sheet \in Sheets, ok \in Outcomes :
        /\ inventory_mapping' = IF ok THEN sheet ELSE << >>
        /\ faults' = Fault(ok)
    /\ UNCHANGED << m_thread, m_is_running, mapper, m_caller, m_hist >>
    /\ UNCHANGED << sync_state, upstream, page_size, stop_event, thread, worker, caller,
                    budget, ret, hist, certificates, authVars, storeVars >>

\* start_mapping_process, line 64: the check of the thread
start_mapping_process(c) ==
    /\ m_caller[c] = "idle"
    /\ MapCall
    /\ m_caller' = [m_caller EXCEPT ![c] =
            IF m_thread # NoThread /\ m_alive(m_thread) THEN "idle"
            ELSE "flag"]
    /\ UNCHANGED << inventory_mapping, m_thread, m_is_running, mapper, m_hist >>
    /\ UNCHANGED << syncVars, certificates, authVars, storeVars >>

\* line 67
start_mapping_flag(c) ==
    /\ m_caller[c] = "flag"
    /\ m_is_running' = TRUE
    /\ m_caller' = [m_caller EXCEPT ![c] = "thread"]
    /\ UNCHANGED << inventory_mapping, m_thread, mapper, m_budget, m_hist >>
    /\ UNCHANGED << syncVars, certificates, authVars, storeVars >>

\* line 68: a new Thread object; one created and never started is dropped
start_mapping_thread(c) ==
    /\ m_caller[c] = "thread"
    /\ \E m \in Mappers :
        /\ mapper[m].pc = "dead"
        /\ \A v \in Mappers : mapper[v].pc = "dead" => m <= v
        /\ m_thread' = m
        /\ mapper' = [v \in Mappers |->
                IF v = m THEN [DeadMapper EXCEPT !.pc = "created"]
                ELSE IF mapper[v].pc = "created" THEN DeadMapper
                ELSE mapper[v]]
    /\ m_caller' = [m_caller EXCEPT ![c] = "start"]
    /\ UNCHANGED << inventory_mapping, m_is_running, m_budget, m_hist >>
    /\ UNCHANGED << syncVars, certificates, authVars, storeVars >>

\* line 69: self._thread.start(); starting a started thread raises
start_mapping_start(c) ==
    /\ m_caller[c] = "start"
    /\ mapper' = IF mapper[m_thread].pc = "created"
                 THEN [mapper EXCEPT ![m_thread].pc = "query"]
                 ELSE mapper
    /\ m_caller' = [m_caller EXCEPT ![c] = "idle"]
    /\ m_hist' = IF \E m \in Mappers \ {m_thread} : m_alive(m)
                 THEN [m_hist EXCEPT !.raced = TRUE] ELSE m_hist
    /\ UNCHANGED << inventory_mapping, m_thread, m_is_running, m_budget >>
    /\ UNCHANGED << syncVars, certificates, authVars, storeVars >>

\* _run_mapping_loop, line 81: InventoryMapping.query.all(); a failing query
\* is caught by the outer handler
map_query(m) ==
    /\ mapper[m].pc = "query"
    /\ \E ok \in Outcomes :
        /\ mapper' = [mapper EXCEPT ![m] =
                IF ok THEN [@ EXCEPT !.pc = "row", !.i = 1,
                                     !.mappings = inventory_mapping]
                ELSE [@ EXCEPT !.pc = "finally"]]
        /\ faults' = Fault(ok)
    /\ UNCHANGED << inventory_mapping, m_thread, m_is_running, m_caller,
                    m_budget, m_hist >>
    /\ UNCHANGED << sync_state, upstream, page_size, stop_event, thread, worker, caller,
                    budget, ret, hist, certificates, authVars, storeVars >>

\* the ids Certificate.query.filter_by(serial_number=...) matches
Matches(serial_number) ==
    { id \in Ids : /\ certificates[id].present
                   /\ certificates[id].serialNumber = serial_number }

\* lines 85-98, 106: the loop test, the flag, the certificate of the row's
\* serial number (first() of an unordered query: any of the matches) and the
\* annotation of it in the session when it is not annotated yet
map_row(m) ==
    /\ mapper[m].pc = "row"
    /\ LET st == mapper[m]
           hits == IF st.i <= Len(st.mappings)
                   THEN Matches(st.mappings[st.i].serial_number) ELSE {}
       IN  IF st.i > Len(st.mappings) \/ ~m_is_running
           THEN /\ mapper' = [mapper EXCEPT ![m].pc = "finally"]
                /\ UNCHANGED m_hist
           ELSE IF hits = {}
           THEN /\ mapper' = [mapper EXCEPT ![m].i = @ + 1]
                /\ UNCHANGED m_hist
           ELSE \E id \in hits :
                IF certificates[id].mapped_to_mip
                THEN /\ mapper' = [mapper EXCEPT ![m].i = @ + 1]
                     /\ m_hist' = [m_hist EXCEPT !.kept = @ \cup {id}]
                ELSE /\ mapper' = [mapper EXCEPT ![m].pc = "commit",
                                                 ![m].cert = id]
                     /\ UNCHANGED m_hist
    /\ UNCHANGED << inventory_mapping, m_thread, m_is_running, m_caller,
                    m_budget >>
    /\ UNCHANGED << syncVars, certificates, authVars, storeVars >>

\* lines 96-104: the commit of the annotation; a failing commit (the row was
\* deleted meanwhile, or the database fails) is rolled back and the loop goes on
map_commit(m) ==
    /\ mapper[m].pc = "commit"
    /\ LET st == mapper[m]
           id == st.cert
       IN  \E ok \in Outcomes :
            /\ certificates' =
                IF ok /\ certificates[id].present
                THEN [certificates EXCEPT
                        ![id].mapped_to_mip = TRUE,
                        ![id].mip_status = st.mappings[st.i].certificate_status]
                ELSE certificates
            /\ faults' = Fault(ok)
            /\ mapper' = [mapper EXCEPT ![m] =
                    [@ EXCEPT !.pc = "row", !.i = @ + 1, !.cert = None]]
    /\ UNCHANGED << inventory_mapping, m_thread, m_is_running, m_caller,
                    m_budget, m_hist >>
    /\ UNCHANGED << sync_state, upstream, page_size, stop_event, thread, worker, caller,
                    budget, ret, hist, authVars, storeVars >>

\* lines 112-113: finally
map_finally(m) ==
    /\ mapper[m].pc = "finally"
    /\ m_is_running' = FALSE
    /\ mapper' = [mapper EXCEPT ![m] = DeadMapper]
    /\ UNCHANGED << inventory_mapping, m_thread, m_caller, m_budget, m_hist >>
    /\ UNCHANGED << syncVars, certificates, authVars, storeVars >>

\* the sync worker's upsert of one page (sync_runner.py, lines 129-130); a
\* failing save_certificates is rolled back
save_page ==
    /\ MapCall
    /\ \E raw \in MapRecords, ok \in Outcomes :
        LET data == << raw >>
            normalized_certs == Normalized(data)
        IN  /\ certificates' =
                IF ok THEN save_certificates(certificates, normalized_certs)
                ELSE certificates
            /\ faults' = Fault(ok)
            /\ m_hist' = IF ok /\ certificates[raw.id].present
                            /\ certificates[raw.id].mapped_to_mip
                         THEN [m_hist EXCEPT !.seen = @ \cup {raw.id}]
                         ELSE m_hist
    /\ UNCHANGED << inventory_mapping, m_thread, m_is_running, mapper,
                    m_caller >>
    /\ UNCHANGED << sync_state, upstream, page_size, stop_event, thread, worker, caller,
                    budget, ret, hist, authVars, storeVars >>

\* clear_data (reset_state, start_full_sync): both tables emptied; a failure
\* is logged and swallowed
clear_data ==
    /\ MapCall
    /\ \E ok \in Outcomes :
        /\ certificates' = IF ok THEN NoCerts ELSE certificates
        /\ sync_state' = IF ok THEN NoRow ELSE sync_state
        /\ faults' = Fault(ok)
    /\ UNCHANGED << inventory_mapping, m_thread, m_is_running, mapper,
                    m_caller, m_hist >>
    /\ UNCHANGED << upstream, page_size, stop_event, thread, worker, caller, budget, ret,
                    hist, authVars, storeVars >>

---------------------------------------------------------------------------
(* The Store alone: save_certificates and get_all_certificates over the
   certificates table as a list of rows, each with its payload *)

\* the keys a payload may carry, in the order they are written
JsonKeys == << "id", "certhash", "serialNumber", "validFromDate", "dn",
               "mapped_to_mip", "mip_status" >>

\* json.dumps of a dict: the text, as its key/value pairs in order
RECURSIVE json_pairs(_, _)
json_pairs(d, keys) ==
    IF keys = << >> THEN << >>
    ELSE (IF Head(keys) \in DOMAIN d
          THEN << << Head(keys), d[Head(keys)] >> >> ELSE << >>)
         \o json_pairs(d, Tail(keys))

json_dumps(d) == json_pairs(d, JsonKeys)

\* json.loads of a text: the dict of its pairs
json_loads(text) ==
    [k \in { text[i][1] : i \in DOMAIN text } |->
        text[CHOOSE i \in DOMAIN text : text[i][1] = k][2]]

\* Certificate(id=cert_id), with the column defaults
NewRow(cert_id) ==
    [id |-> cert_id, serial_number |-> None, valid_from_date |-> None,
     mapped_to_mip |-> FALSE, mip_status |-> "Unknown", full_json |-> << >>]

\* query_get, were no row ever found
query_get_nothing(table, cert_id) == 0

\* Certificate.query.get(cert_id): the index of the row, 0 when there is none
query_get(table, cert_id) ==
    IF \E i \in DOMAIN table : table[i].id = cert_id
    THEN CHOOSE i \in DOMAIN table : table[i].id = cert_id
    ELSE 0

\* one iteration of save_certificates' loop, over the rows
save_row(table, cert_data) ==
    LET cert_id == Get(cert_data, "id")
        found == query_get(table, cert_id)
        added == IF found = 0 THEN Append(table, NewRow(cert_id)) ELSE table
        k == IF found = 0 THEN Len(added) ELSE found
    IN  IF cert_id = None \/ cert_id = 0 THEN table
        ELSE [added EXCEPT ![k] =
                [@ EXCEPT
                    !.serial_number = Get(cert_data, "serialNumber"),
                    !.valid_from_date = Get(cert_data, "validFromDate"),
                    !.mapped_to_mip = IF "mapped_to_mip" \in DOMAIN cert_data
                                      THEN cert_data["mapped_to_mip"] ELSE @,
                    !.mip_status = IF "mip_status" \in DOMAIN cert_data
                                   THEN cert_data["mip_status"] ELSE @,
                    !.full_json = json_dumps(cert_data)]]

RECURSIVE save_rows(_, _)
save_rows(table, certs) ==
    IF certs = << >> THEN table
    ELSE save_rows(save_row(table, Head(certs)), Tail(certs))

\* the rows in descending order of valid_from_date (the order among rows of
\* one date is not read by any property)
RECURSIVE order_by_desc(_)
order_by_desc(table) ==
    IF table = << >> THEN << >>
    ELSE LET i == CHOOSE i \in DOMAIN table :
                    \A j \in DOMAIN table :
                        table[j].valid_from_date <= table[i].valid_from_date
             rest == [j \in 1 .. (Len(table) - 1) |->
                        IF j < i THEN table[j] ELSE table[j + 1]]
         IN  << table[i] >> \o order_by_desc(rest)

\* one entry of get_all_certificates: the payload, with the local fields
Entry(c) ==
    LET data == IF c.full_json # << >> THEN json_loads(c.full_json)
                ELSE << >>
        local == {"id", "mapped_to_mip", "mip_status"}
    IN  [k \in DOMAIN data \cup local |->
            CASE k = "id" -> c.id
              [] k = "mapped_to_mip" -> c.mapped_to_mip
              [] k = "mip_status" -> c.mip_status
              [] OTHER -> data[k]]

get_all_certificates(table) ==
    LET certs == order_by_desc(table)
    IN  [i \in DOMAIN certs |-> Entry(certs[i])]

\* the normalized certificates callers hand to save_certificates: with or
\* without an id, with or without the annotation keys
CertDatas ==
    LET plain == [id : 0 .. NumRecords, serialNumber : Ids,
                  validFromDate : {Anchor + TicksPerDay}]
    IN  plain \cup { [id |-> c.id, serialNumber |-> c.serialNumber,
                      validFromDate |-> c.validFromDate,
                      mapped_to_mip |-> TRUE, mip_status |-> "Active"]
                     : c \in plain }

\* hash values: the certhash and the sha1 of the certificate of an id
Certhash(id) == 10 + id
Sha1(id) == 20 + id

\* the raw records of a page: the documented keys, with or without a key the
\* normalizer does not list, with or without certhash and sha1
RawPayloads ==
    LET plain == { r \in RawRecords : r.validFromDate = Anchor + TicksPerDay }
        own == { r \in plain : r.serialNumber = r.id }
    IN  plain
        \cup { [id |-> r.id, serialNumber |-> r.serialNumber,
                validFromDate |-> r.validFromDate, dn |-> r.id] : r \in plain }
        \cup { [id |-> r.id, serialNumber |-> r.serialNumber,
                validFromDate |-> r.validFromDate,
                certhash |-> Certhash(r.id)] : r \in own }
        \cup { [id |-> r.id, serialNumber |-> r.serialNumber,
                validFromDate |-> r.validFromDate,
                sha1 |-> Sha1(r.id)] : r \in own }
        \cup { [id |-> r.id, serialNumber |-> r.serialNumber,
                validFromDate |-> r.validFromDate,
                certhash |-> Certhash(r.id), sha1 |-> Sha1(r.id)] : r \in own }

BatchesOf(S) == UNION { [1 .. n -> S] : n \in 1 .. MaxBatch }

\* the calls: save_certificates(certs), or the worker's upsert of a page
StoreCalls ==
    { [op |-> "save", batch |-> b] : b \in BatchesOf(CertDatas) }
    \cup { [op |-> "page", batch |-> b] : b \in BatchesOf(RawPayloads) }

RECURSIVE Logged(_, _, _)
Logged(op, raws, certs) ==
    IF certs = << >> THEN << >>
    ELSE (IF Get(Head(certs), "id") \in {None, 0} THEN << >>
          ELSE << [op |-> op, raw |-> Head(raws), cert |-> Head(certs)] >>)
         \o Logged(op, Tail(raws), Tail(certs))

\* save_certificates(certs): every row of the batch, then the commit; a
\* failure rolls the batch back and raises
store_save_certificates ==
    /\ pending # << >>
    /\ Head(pending).op = "save"
    /\ \E ok \in Outcomes :
        LET certs == Head(pending).batch
        IN  /\ rows' = IF ok THEN save_rows(rows, certs) ELSE rows
            /\ log' = IF ok THEN log \o Logged("save", certs, certs) ELSE log
            /\ faults' = Fault(ok)
    /\ pending' = Tail(pending)
    /\ UNCHANGED << sync_state, upstream, page_size, stop_event, thread, worker, caller,
                    budget, ret, hist, certificates, authVars, mapVars >>

\* sync_runner.py, lines 129-130: the page is normalized and upserted
store_save_page ==
    /\ pending # << >>
    /\ Head(pending).op = "page"
    /\ \E ok \in Outcomes :
        LET data == Head(pending).batch
            normalized_certs == Normalized(data)
        IN  /\ rows' = IF ok THEN save_rows(rows, normalized_certs) ELSE rows
            /\ log' = IF ok THEN log \o Logged("page", data, normalized_certs)
                      ELSE log
            /\ faults' = Fault(ok)
    /\ pending' = Tail(pending)
    /\ UNCHANGED << sync_state, upstream, page_size, stop_event, thread, worker, caller,
                    budget, ret, hist, certificates, authVars, mapVars >>

---------------------------------------------------------------------------
(* Properties of the sync engine *)

Idle == \A c \in Callers : caller[c] = "idle"
NoWorker == \A w \in Workers : worker[w].pc = "dead"
AliveWorkers == { w \in Workers : alive(w) }
Persisted == get_state(sync_state, TRUE)

\* C1: at most one sync worker thread is alive in any reachable state, for
\* every interleaving of start_full_sync and resume_sync calls of concurrent
\* control callers.
C1_OneSweepAtATime == Cardinality(AliveWorkers) <= 1

\* C3: once a Store write of a sweep has failed, its worker fetches no further
\* page: it is writing status ERROR or has ended.
C3_StoreFailureIsFatal ==
    \A w \in Workers : hist.wfail[w] => worker[w].pc \in {"error", "dead"}

\* C4: of two successive successful checkpoint writes of one sweep, the later
\* lastSuccessfulValidFromDate is greater than or equal to the earlier one.
C4_CheckpointMonotonic ==
    \A w \in Workers :
        hist.prevCk[w] # None => hist.prevCk[w] <= hist.lastCk[w]

\* a step of clear_data or of start_full_sync's write of the initial state
ResetStep ==
    \E c \in Callers : /\ caller[c] \in {"s_clear", "s_save", "x_clear"}
                       /\ caller'[c] # caller[c]

\* C5: the persisted totalRecordsCollected never decreases from one state to
\* the next, except in a step that resets the Store (clear_data, and the
\* initial state start_full_sync writes after it).
C5_TotalNonDecreasing ==
    [][ResetStep \/ Persisted'.total >= Persisted.total]_vars

\* the records an uninterrupted sweep from the anchor collects
RECURSIVE InRange(_, _, _)
InRange(s, lo, hi) ==
    IF s = << >> THEN {}
    ELSE (IF lo <= Head(s).validFromDate /\ Head(s).validFromDate <= hi
          THEN {Head(s)} ELSE {}) \cup InRange(Tail(s), lo, hi)

FullSweep == InRange(upstream, Anchor + TicksPerDay, Now)

\* sweeps from the anchor that were only stopped and resumed, with no failure
StopResumeRun ==
    /\ faults = 0
    /\ hist.ops # << >>
    /\ \A i \in 1 .. Len(hist.ops) :
        /\ hist.ops[i] # "reset"
        /\ hist.ops[i] = "start" => i = 1
    /\ \E i \in 1 .. Len(hist.ops) : hist.ops[i] = "resume"

\* C6: a sweep that was stopped and resumed and has reached COMPLETED holds
\* the catalog of the uninterrupted sweep, but for records whose validFromDate
\* falls on the day of a checkpoint it was resumed from.
C6_StopResumeEquivalent ==
    (StopResumeRun /\ Idle /\ NoWorker /\ Persisted.status = "COMPLETED")
    => /\ \A r \in FullSweep :
            certificates[r.id].present \/ Day(r.validFromDate) \in hist.bdays
       /\ \A i \in Ids :
            certificates[i].present => \E r \in FullSweep : r.id = i

\* C7: when the stop signal was set between two pages of a window, the worker
\* fetches no further page and, once it has ended and stop_sync has returned,
\* the status is STOPPED and the checkpoint is that of the last page whose
\* upsert committed.
C7_StopBetweenPages ==
    hist.between # "no" =>
        /\ hist.between # "fetched"
        /\ (Idle /\ NoWorker) =>
            /\ Persisted.status = "STOPPED"
            /\ Persisted.vfd = hist.page.vfd
            /\ Persisted.total = hist.page.total

\* the same, for sweeps in which the environment injected no failure
C7_StopBetweenPages_NoFault == faults = 0 => C7_StopBetweenPages

\* the step in which worker w writes the checkpoint of its page
CheckpointWrite(w) ==
    /\ worker[w].pc = "save_ckpt"
    /\ worker'[w].pc # "save_ckpt"

\* C18: within a sweep, the checkpoint of a page is written only after the
\* upsert of that same page has committed, and the persisted checkpoint and
\* total change in no other step of a sweep: none is written for a page whose
\* upsert failed or has not happened
C18_CheckpointAfterUpsert ==
    [][ /\ \A w \in Workers :
            CheckpointWrite(w) => /\ worker[w].data # << >>
                                  /\ hist.upserted[w] = worker[w].data
        /\ (Persisted'.vfd # Persisted.vfd \/ Persisted'.total # Persisted.total)
            => \/ ResetStep
               \/ \E w \in Workers : CheckpointWrite(w) ]_vars

\* a sweep wrote the checkpoint of a page it had upserted, and the upsert of
\* its next page failed: the checkpoint is still that of the first
C18_Witness ==
    \E w \in Workers :
        /\ worker[w].pc = "error"
        /\ worker[w].data # << >>
        /\ hist.upserted[w] = << >>
        /\ hist.lastCk[w] # None
        /\ Persisted.vfd = hist.lastCk[w]
        /\ MaxDate(worker[w].data) # hist.lastCk[w]

\* a cold full sync has ended: one start_full_sync, no other accepted call, no
\* failure, status COMPLETED
ColdFullSyncEnded ==
    /\ hist.ops = << "start" >>
    /\ faults = 0
    /\ Idle /\ NoWorker
    /\ Persisted.status = "COMPLETED"

Rows == { id \in Ids : certificates[id].present }

\* what the spec expects of a cold full sync over the records of upstream
ColdFullSyncResult ==
    /\ Persisted.total = Len(upstream)
    /\ Cardinality(Rows) = Len(upstream)
    /\ Persisted.vfd = MaxDate(upstream)

\* C15: a cold full sync over an upstream holding N >= 1 records with distinct
\* ids, all dated within the first year (from the anchor day to the year's
\* last instant), ends with total_records_collected = N, N catalog rows and
\* the checkpoint at the greatest validFromDate received
C15_ColdFullSync ==
    (/\ ColdFullSyncEnded
     /\ upstream # << >>
     /\ \A i \in DOMAIN upstream :
            /\ Anchor <= upstream[i].validFromDate
            /\ upstream[i].validFromDate <= YearEnd(Year(Anchor)))
    => ColdFullSyncResult

\* the same, for records of the first year the first window asks for (none on
\* the anchor day)
C15_ColdFullSync_Requested ==
    (/\ ColdFullSyncEnded
     /\ upstream # << >>
     /\ \A i \in DOMAIN upstream :
            /\ Anchor + TicksPerDay <= upstream[i].validFromDate
            /\ upstream[i].validFromDate <= YearEnd(Year(Anchor)))
    => ColdFullSyncResult

\* the same, when moreover the upstream lists them by ascending validFromDate
C15_ColdFullSync_Ascending ==
    (/\ ColdFullSyncEnded
     /\ upstream # << >>
     /\ \A i \in DOMAIN upstream :
            /\ Anchor + TicksPerDay <= upstream[i].validFromDate
            /\ upstream[i].validFromDate <= YearEnd(Year(Anchor))
     /\ \A i, j \in DOMAIN upstream :
            i < j => upstream[i].validFromDate <= upstream[j].validFromDate)
    => ColdFullSyncResult

\* a cold full sync of two records on different days has ended
C15_Reached ==
    /\ ColdFullSyncEnded
    /\ Len(upstream) = NumRecords
    /\ upstream[1].validFromDate < upstream[2].validFromDate
    /\ Anchor + TicksPerDay <= upstream[1].validFromDate
    /\ upstream[2].validFromDate <= YearEnd(Year(Anchor))
    /\ ColdFullSyncResult

\* worker w's sweep is at its first step and will start from the anchor
FromAnchor(w) == worker[w].pc = "begin" /\ Persisted.vfd = Anchor

\* the sweep running was stopped: the last accepted control call is a stop
Stopped == hist.ops # << >> /\ hist.ops[Len(hist.ops)] = "stop"

\* C19: a sweep that starts from the anchor eventually terminates; if it was
\* not stopped and no Client or Store exception occurred it ends with status
\* COMPLETED; the sweep moves to the next year each time it leaves a window,
\* and leaves the loop unstopped only past the present year, whose window ends
\* at the present
C19_SweepTerminates ==
    /\ \A w \in Workers :
        FromAnchor(w) ~>
            (/\ worker[w].pc = "dead"
             /\ (faults = 0 /\ ~Stopped) => Persisted.status = "COMPLETED")
    /\ [](\A w \in Workers :
            /\ (worker[w].pc = "finish" /\ ~stop_event)
                    => worker[w].year = Year(Now) + 1
            /\ (worker[w].pc = "fetch" /\ worker[w].year = Year(Now))
                    => year_end(w) = Now /\ Now < YearEnd(worker[w].year))
    /\ [][ \A w \in Workers :
            (worker[w].pc \in {"page_check", "fetch", "save_ckpt"}
             /\ worker'[w].pc = "year_check")
                => worker'[w].year = worker[w].year + 1 ]_vars

\* a sweep from the anchor was not stopped, met no exception and has ended
\* COMPLETED with a record of the present year, fetched in the clamped window
C19_Witness ==
    /\ ColdFullSyncEnded
    /\ \E i \in DOMAIN upstream :
        /\ Year(upstream[i].validFromDate) = Year(Now)
        /\ upstream[i].validFromDate <= Now
        /\ certificates[upstream[i].id].present

\* the pagination loop of worker w in a step from worker record a to b
PageStep(w, a, b, fault) ==
    /\ (b.pc = "page_check" /\ a.pc # "page_check")
        => \/ a.pc = "year_check" /\ b.page = 0
           \/ a.pc = "save_ckpt" /\ b.page = a.page + 1 /\ b.year = a.year
    /\ (a.pc = "page_check" /\ b.pc # "page_check")
        => IF stop_event THEN b.pc = "year_check"
           ELSE b.pc = "fetch" /\ b.page = a.page /\ b.year = a.year
    /\ (a.pc = "fetch" /\ b.pc # "fetch")
        => LET page == UpstreamPage(year_start(w), year_end(w), a.page,
                                    page_size)
           IN  \/ /\ b.pc = "save_certs"
                  /\ b.data = page /\ b.data # << >>
                  /\ Len(b.data) <= page_size
                  /\ b.page = a.page /\ b.year = a.year
               \/ /\ b.pc = "year_check" /\ b.year = a.year + 1
                  /\ page = << >> \/ fault
               \/ b.pc = "error" /\ fault
    /\ (a.pc \in {"save_certs", "get_total"} /\ b.pc \notin {a.pc, "error"})
        => b.page = a.page /\ b.data = a.data /\ b.year = a.year
    /\ (a.pc = "save_ckpt" /\ b.pc # "save_ckpt")
        => IF Len(a.data) < page_size
           THEN b.pc = "year_check" /\ b.year = a.year + 1
           ELSE b.pc = "page_check" /\ b.page = a.page + 1

\* C22: in the pagination loop of a window the pages are requested in the
\* order 0, 1, 2, ... with no gap and no repeat; the window ends when the page
\* received is empty or shorter than page_size (or on the stop signal or an
\* error), and a page of page_size records is followed by the request of the
\* next page unless the stop signal is set
C22_PagesInOrder ==
    [][ \A w \in Workers :
            PageStep(w, worker[w], worker'[w], faults' > faults) ]_vars

\* a full page of more than one record was upserted and checkpointed, and the
\* next page is being requested
C22_Witness ==
    \E w \in Workers :
        /\ worker[w].pc = "fetch"
        /\ worker[w].page = 1
        /\ page_size = MaxPageSize
        /\ hist.lastCk[w] # None

\* a page shorter than page_size, not empty, has been received
C22_ShortPage ==
    \E w \in Workers :
        /\ worker[w].pc = "save_ckpt"
        /\ Len(worker[w].data) < page_size

\* the interval selectors of the window planner, and the last instant of the
\* day, month or year that contains t
Intervals == {"daily", "monthly", "yearly"}

EndOf(interval, t) ==
    CASE interval = "daily" -> (Day(t) + 1) * TicksPerDay - 1
      [] interval = "monthly" ->
            ((Day(t) \div DaysPerMonth) + 1) * DaysPerMonth * TicksPerDay - 1
      [] interval = "yearly" -> YearEnd(Year(t))

\* worker w, of a resumed sweep, is in the first window it opens
FirstWindowOfResume(w) ==
    /\ hist.ops # << >>
    /\ hist.ops[Len(hist.ops)] = "resume"
    /\ worker[w].pc = "fetch"
    /\ worker[w].page = 0
    /\ worker[w].year = Year(worker[w].start_dt)
    /\ hist.lastCk[w] = None

\* the first window of a resumed sweep, for an interval selector
FirstWindowIs(w, interval) ==
    /\ year_start(w) = Persisted.vfd + TicksPerDay
    /\ year_end(w) = Min(EndOf(interval, Persisted.vfd + TicksPerDay), Now)

\* C24: on resume_sync with an interval selector (daily, monthly or yearly)
\* the first window starts one day after the checkpoint and ends at the last
\* instant of the day, month or year that contains that cursor, clamped at Now
C24_FirstWindowOfInterval ==
    \A w \in Workers : \A interval \in Intervals :
        (faults = 0 /\ FirstWindowOfResume(w)) => FirstWindowIs(w, interval)

\* what the code does: the first window is the yearly one
C24_FirstWindowYearly ==
    \A w \in Workers :
        (faults = 0 /\ FirstWindowOfResume(w)) => FirstWindowIs(w, "yearly")

\* a resumed sweep opens its first window on a day that is not the last of
\* its year
C24_Reached ==
    \E w \in Workers :
        /\ faults = 0
        /\ FirstWindowOfResume(w)
        /\ EndOf("monthly", worker[w].start_dt) < year_end(w)

\* the last accepted control call
LastOp == IF hist.ops = << >> THEN "none" ELSE hist.ops[Len(hist.ops)]

\* the step in which caller c's call starts its worker thread and returns
StartedStep(c) ==
    /\ caller[c] = "thread_start"
    /\ caller'[c] = "idle"
    /\ ret'[c] = "True"

\* the steps of accepted start_full_sync and resume_sync calls of caller c
StartResumeEffect(c) ==
    /\ (caller[c] = "s_clear" /\ caller'[c] # "s_clear")
        => certificates' = NoCerts /\ ~sync_state'.present
    /\ (caller[c] = "s_save" /\ caller'[c] # "s_save")
        => /\ sync_state' = [present |-> TRUE, vfd |-> Anchor, total |-> 0,
                              status |-> "RUNNING"]
           /\ certificates' = certificates
    /\ (StartedStep(c) /\ LastOp = "start")
        => /\ certificates = NoCerts
           /\ Persisted = [vfd |-> Anchor, total |-> 0, status |-> "RUNNING"]
    /\ (caller[c] = "r_event" /\ caller'[c] # "r_event")
        => sync_state' = sync_state /\ certificates' = certificates
    /\ (caller[c] = "r_save" /\ caller'[c] # "r_save")
        => /\ Persisted'.status = "RUNNING"
           /\ Persisted'.vfd = Persisted.vfd
           /\ Persisted'.total = Persisted.total
           /\ certificates' = certificates
    /\ (StartedStep(c) /\ LastOp = "resume")
        => Persisted.status = "RUNNING"

\* C23: an accepted start_full_sync clears the catalog and the state before
\* the worker starts and leaves the state row at the defaults with status
\* RUNNING; an accepted resume_sync changes only the status, to RUNNING, and
\* keeps the checkpoint, the total and the catalog
C23_StartClearsResumeKeeps ==
    [][ \A c \in Callers : StartResumeEffect(c) ]_vars

\* the same, while no Store operation has failed
C23_StartClearsResumeKeeps_NoFault ==
    [][ faults' = 0 => \A c \in Callers : StartResumeEffect(c) ]_vars

\* a stopped sweep with a checkpoint and a catalog was resumed, and its worker
\* is starting
C23_Reached ==
    /\ faults = 0
    /\ hist.ops = << "start", "stop", "resume" >>
    /\ \E w \in Workers : worker[w].pc = "begin"
    /\ Persisted.status = "RUNNING"
    /\ Persisted.vfd > Anchor
    /\ certificates # NoCerts

\* stop_sync has returned and no control call was accepted since
AfterStop == LastOp = "stop" /\ Idle

\* C25: once stop_sync has returned, the persisted status is STOPPED and stays
\* so, and the checkpoint and the total stay as they are, until the next
\* accepted control call, also while the worker the join did not wait for is
\* still at its page
C25_StoppedStaysStopped ==
    [][ (faults' = 0 /\ AfterStop)
            => /\ Persisted.status = "STOPPED"
               /\ Idle' => Persisted' = Persisted ]_vars

\* the same, once the worker has ended
C25_StoppedStaysStopped_WorkerEnded ==
    [][ (faults' = 0 /\ AfterStop /\ NoWorker)
            => /\ Persisted.status = "STOPPED"
               /\ Idle' => Persisted' = Persisted ]_vars

\* the same, once the worker has ended, whatever failed
C25_StoppedStaysStopped_WorkerEnded_Faults ==
    [][ (AfterStop /\ NoWorker)
            => /\ Persisted.status = "STOPPED"
               /\ Idle' => Persisted' = Persisted ]_vars

\* stop_sync has returned after its join timed out: the worker has a page in
\* hand
C25_Reached ==
    /\ faults = 0
    /\ AfterStop
    /\ \E w \in Workers : worker[w].pc = "save_certs"

\* C26: once the control calls have returned, the persisted status agrees
\* with the worker: while a sync worker is alive and the stop event is not set
\* the status is RUNNING, and a worker alive after a stop_sync that came last
\* still has the stop event that call set (no failure and no reset being
\* involved)
C26_StatusAgreesWithWorker ==
    (/\ faults = 0 /\ Idle /\ AliveWorkers # {}
     /\ \A i \in DOMAIN hist.ops : hist.ops[i] # "reset")
        => /\ ~stop_event => Persisted.status = "RUNNING"
           /\ LastOp = "stop" => stop_event

\* a sweep was stopped while it ran, the call has returned and the worker is
\* still alive, with the stop event set
C26_Reached ==
    /\ faults = 0 /\ Idle /\ AliveWorkers # {}
    /\ LastOp = "stop"
    /\ stop_event
    /\ Persisted.status = "STOPPED"

\* the step in which reset_state's clear_data executes
ResetClears(c) == caller[c] = "x_clear" /\ caller'[c] # "x_clear"

\* C27: the clear_data of reset_state never executes while a sync worker is
\* alive, whatever start_full_sync or resume_sync call runs beside the reset
C27_NoClearWhileRunning ==
    [][ \A c \in Callers : ResetClears(c) => AliveWorkers = {} ]_vars

\* a reset was accepted after a sweep had collected records and ended, and
\* has cleared the Store
C27_Reached ==
    /\ LastOp = "reset"
    /\ Idle /\ NoWorker
    /\ Len(hist.ops) > 1
    /\ hist.page.vfd # None
    /\ certificates = NoCerts

\* the step in which caller c's call of start_full_sync, resume_sync or
\* reset_state passes its is_running check and goes on
Accepted(c) ==
    /\ caller[c] = "idle"
    /\ caller'[c] \in {"s_clear", "r_event", "x_clear"}

\* the step in which a caller's call is turned down
Rejected(c) ==
    /\ caller[c] = "idle"
    /\ caller'[c] = "idle"
    /\ budget'[c] < budget[c]

\* C13: while a sweep is running (a sync worker thread is alive), a call of
\* start_full_sync, resume_sync or reset_state is rejected, and the rejection
\* leaves the sync_state row and the catalog unchanged
C13_RejectedWhileRunning ==
    [][ \A c \in Callers :
          /\ AliveWorkers # {} => ~Accepted(c)
          /\ Rejected(c) => /\ ret'[c] \in {"False", "400"}
                            /\ sync_state' = sync_state
                            /\ certificates' = certificates ]_vars

---------------------------------------------------------------------------
(* Properties of the client and the token cache *)

Finished(t) == client[t].pc = "idle" /\ client[t].op = "fetch"

\* C2: a call of fetch_certificates whose first attempt and whose retry after
\* the forced refresh both got an authentication failure ends by raising; it
\* does not return normally (in particular not an empty list)
C2_AuthFailurePropagates ==
    \A t \in Threads :
        ( /\ Finished(t)
          /\ client[t].auth_failures = max_attempts )
        => client[t].result = "raise"

\* no read between the i-th and the j-th (the j-th included) forced a refresh
NoForcedBetween(i, j) == \A k \in (i + 1) .. j : ~reads[k].force

\* C9: two token reads at T1 < T2 with no forced refresh between them and
\* T2 - T1 below the refresh interval return the identical token (a read that
\* got an empty body from the auth endpoint read no token)
C9_SameTokenWithinInterval ==
    \A i, j \in DOMAIN reads :
        ( /\ i < j
          /\ reads[i].at < reads[j].at
          /\ NoForcedBetween(i, j)
          /\ reads[i].tok # NoToken
          /\ reads[j].at - reads[i].at < REFRESH_INTERVAL )
        => reads[j].tok = reads[i].tok

\* C9, as the code has it: T2 is less than the refresh interval after the
\* instant the token read at T1 was issued (not after T1); then the read at
\* T2 returns the identical token
C9_SameTokenWithinAge ==
    \A i, j \in DOMAIN reads :
        ( /\ i < j
          /\ reads[i].at < reads[j].at
          /\ NoForcedBetween(i, j)
          /\ reads[i].tok # NoToken
          /\ reads[j].at - reads[i].iss < REFRESH_INTERVAL )
        => reads[j].tok = reads[i].tok

\* two reads, the second later than the first and served from the cache
\* within the refresh interval of the token's issue
C9_Witness ==
    \E i, j \in DOMAIN reads :
        /\ i < j
        /\ reads[i].at < reads[j].at
        /\ NoForcedBetween(i, j)
        /\ reads[i].tok # NoToken
        /\ reads[j].at - reads[i].iss < REFRESH_INTERVAL
        /\ reads[j].iss = reads[i].iss
        /\ reads[j].tok = reads[i].tok

\* C10: a caller of get_token that waited while another caller's refresh was
\* in progress returns the token that refresh issued, whether it called with
\* force_refresh true or false
C10_WaitersShareToken ==
    \A t \in Threads :
        (client[t].awaited # None /\ client[t].got # None)
        => client[t].got = client[t].awaited

\* the threads whose request to the auth endpoint is in flight
InFlight == { t \in Threads : client[t].pc = "gt_fetch" }

\* C11: in every reachable state at most one token fetch against the auth
\* endpoint is in flight, whatever mix of force_refresh values the concurrent
\* callers of get_token use
C11_OneFetchInFlight == Cardinality(InFlight) <= 1

\* a fetch is in flight while another thread, which forces a refresh, waits
C11_Witness ==
    \E t, u \in Threads :
        /\ t \in InFlight
        /\ client[u].pc = "gt_wait"
        /\ client[u].force

\* C12: a call of fetch_certificates makes at most two attempts; the token of
\* the first is asked with force_refresh false and that of the second with
\* force_refresh true, and that second get_token makes exactly one request to
\* the auth endpoint before the second attempt is sent
C12_OneForcedRefresh ==
    [][ \A t \in Threads :
          client[t].op = "fetch" =>
            /\ client'[t].attempts <= max_attempts
            /\ (client[t].pc = "fc_loop" /\ client'[t].pc = "gt_wait")
                => client'[t].force = (client'[t].attempts = max_attempts)
            /\ ( /\ client[t].attempts = max_attempts
                 /\ client[t].pc = "gt_wait"
                 /\ client'[t].pc # "gt_wait" )
                => client'[t].pc = "gt_fetch"
            /\ ( /\ client[t].attempts = max_attempts
                 /\ client[t].pc = "gt_fetch"
                 /\ client'[t].pc # "gt_fetch" )
                => /\ auth_calls' = auth_calls + 1
                   /\ client'[t].pc \in {"fc_post", "idle"} ]_vars

\* a call whose first attempt got 401 and whose second attempt succeeded
C12_Witness ==
    \E t \in Threads :
        /\ Finished(t)
        /\ client[t].auth_failures = 1
        /\ client[t].result = "json"

\* C28: the client asks for a forced refresh only after an authentication
\* failure: a fetch_certificates call goes back to its loop only from a 401 or
\* 403 response (any other failure of the first attempt is raised), and its
\* get_token is forced only when the call has met an authentication failure
C28_ForcedOnlyAfterAuthFailure ==
    [][ \A t \in Threads :
            client[t].op = "fetch" =>
                /\ (client[t].pc = "fc_post" /\ client'[t].pc = "fc_loop")
                    => client'[t].auth_failures = client[t].auth_failures + 1
                /\ (client[t].pc = "fc_loop" /\ client'[t].pc = "gt_wait"
                    /\ client'[t].force)
                    => client[t].auth_failures >= 1 ]_vars

\* what the code does: the failure of the last attempt is the one raised
C28_RaisedAtLastAttempt ==
    [][ \A t \in Threads :
            (client[t].pc = "fc_post" /\ client'[t].pc = "idle"
             /\ client'[t].result = "raise")
                => client[t].attempts = max_attempts ]_vars

\* the token fetch of thread t fails in this step: get_token raises
FetchFails(t) ==
    /\ client[t].pc = "gt_fetch"
    /\ client'[t].pc = "idle"
    /\ client'[t].result = "raise"

\* the last get_token call of thread t raised
LastGetTokenRaised(t) ==
    /\ client[t].pc = "idle"
    /\ client[t].op = "get_token"
    /\ client[t].result = "raise"

\* C29: a failed token fetch leaves the token cache unchanged: the token and
\* its issue time are as before and the lock is released; and after it, an
\* unforced get_token made within the refresh interval of the old token
\* returns that token and makes no request to the auth endpoint
C29_FailedFetchKeepsCache ==
    [][ /\ \A t \in Threads :
            FetchFails(t) => /\ token' = token
                             /\ token_issue_time' = token_issue_time
                             /\ lock' = Free
        /\ \A t, u \in Threads :
            ( /\ LastGetTokenRaised(t)
              /\ client[u].pc = "gt_wait"
              /\ client[u].op = "get_token"
              /\ client'[u] # client[u]
              /\ CacheFresh(client[u].force, clock) )
            => /\ client'[u].pc = "idle"
               /\ client'[u].result = "token"
               /\ client'[u].got = token
               /\ auth_calls' = auth_calls
               /\ lock' = Free ]_vars

\* a forced get_token has failed with a token in the cache, the lock is free,
\* and an unforced call waits within the refresh interval of that token
C29_Witness ==
    \E t, u \in Threads :
        /\ LastGetTokenRaised(t)
        /\ lock = Free
        /\ client[u].pc = "gt_wait"
        /\ client[u].op = "get_token"
        /\ CacheFresh(client[u].force, clock)

---------------------------------------------------------------------------
(* Properties of the annotation *)

\* C8: mapped_to_mip of a certificate only goes from false to true: no catalog
\* upsert and no annotation run sets it back to false while the row exists
\* (a reset deletes the row)
C8_MappedIsPermanent ==
    [][ \A id \in Ids :
          ( /\ certificates[id].present
            /\ certificates[id].mapped_to_mip
            /\ certificates'[id].present )
          => certificates'[id].mapped_to_mip ]_vars

\* an annotated certificate was re-observed by an upsert, found annotated by
\* an annotation run, and is annotated still
C8_Witness ==
    \E id \in Ids :
        /\ id \in m_hist.seen
        /\ id \in m_hist.kept
        /\ certificates[id].present
        /\ certificates[id].mapped_to_mip

AliveMappers == { m \in Mappers : m_alive(m) }

\* C17: the annotation worker does not run concurrently with itself: at most
\* one apply thread is alive at any time, and no start_mapping_process call
\* made while one is alive gets past its check
C17_OneApplyThread ==
    [][ /\ Cardinality(AliveMappers') <= 1
        /\ \A c \in Callers :
            (m_caller[c] = "idle" /\ m_caller'[c] = "flag")
                => AliveMappers = {} ]_vars

\* a step of an apply thread's loop
ApplyStep == \E m \in Mappers : m_alive(m) /\ mapper'[m] # mapper[m]

\* C16: a step of the apply phase leaves every certificate that is already
\* annotated (mapped_to_mip true) as it is, mapped_to_mip and mip_status
\* included, and a mapping row whose serial number matches no certificate
\* changes nothing
C16_AppliedOnlyToUnmapped ==
    [][ ApplyStep =>
          /\ \A id \in Ids :
                (certificates[id].present /\ certificates[id].mapped_to_mip)
                    => certificates'[id] = certificates[id]
          /\ \A id \in Ids :
                ~certificates[id].present
                    => certificates'[id] = certificates[id] ]_vars

\* the same, for runs in which no two apply threads were ever alive at once
C16_AppliedOnlyToUnmapped_NoRace ==
    [][ ~m_hist'.raced =>
        (ApplyStep =>
          /\ \A id \in Ids :
                (certificates[id].present /\ certificates[id].mapped_to_mip)
                    => certificates'[id] = certificates[id]
          /\ \A id \in Ids :
                ~certificates[id].present
                    => certificates'[id] = certificates[id]) ]_vars

\* an apply thread has passed over a mapping row whose certificate was already
\* annotated, and another whose serial number matches no certificate
C16_Reached ==
    /\ ~m_hist.raced
    /\ m_hist.kept # {}
    /\ \E m \in Mappers :
        /\ mapper[m].pc = "row"
        /\ mapper[m].i > 1
        /\ Matches(mapper[m].mappings[mapper[m].i - 1].serial_number) = {}

---------------------------------------------------------------------------
(* Properties of the Store alone *)

\* the committed upserts of an id, as positions of the log
UpsertsOf(id) == { i \in DOMAIN log : log[i].cert["id"] = id }

\* the most recent committed upsert of an id
LastUpsert(id) ==
    log[CHOOSE i \in UpsertsOf(id) : \A j \in UpsertsOf(id) : j <= i].cert

\* C14: after any sequence of save_certificates calls the table holds at most
\* one row per id (and a row only for an id that was upserted), and the row of
\* an id carries the field values and the payload of the most recent upsert
\* with that id
C14_OneRowPerIdLatestWins ==
    /\ \A i, j \in DOMAIN rows : rows[i].id = rows[j].id => i = j
    /\ \A i \in DOMAIN rows : UpsertsOf(rows[i].id) # {}
    /\ \A id \in Ids :
        UpsertsOf(id) # {} =>
            \E i \in DOMAIN rows :
                LET last == LastUpsert(id)
                IN  /\ rows[i].id = id
                    /\ rows[i].serial_number = Get(last, "serialNumber")
                    /\ rows[i].valid_from_date = Get(last, "validFromDate")
                    /\ "mapped_to_mip" \in DOMAIN last
                        => rows[i].mapped_to_mip = last["mapped_to_mip"]
                    /\ "mip_status" \in DOMAIN last
                        => rows[i].mip_status = last["mip_status"]
                    /\ rows[i].full_json = json_dumps(last)

\* an id was upserted twice by committed calls, with different field values,
\* and every call has returned
C14_Witness ==
    /\ pending = << >>
    /\ \E id \in Ids : \E i, j \in UpsertsOf(id) :
        /\ i < j
        /\ log[i].cert["serialNumber"] # log[j].cert["serialNumber"]
        /\ \E k \in DOMAIN rows : rows[k].id = id

\* the most recent committed upsert of an id, with the raw record it came from
LastLogged(id) ==
    log[CHOOSE i \in UpsertsOf(id) : \A j \in UpsertsOf(id) : j <= i]

\* C20: the full upstream payload round-trips through the Store: for every raw
\* record of a page the sweep persisted (the latest one of its id), the entry
\* get_all_certificates returns for that id has every field of the raw record,
\* with its original value
C20_PayloadRoundTrips ==
    \A id \in Ids :
        (UpsertsOf(id) # {} /\ LastLogged(id).op = "page") =>
            LET raw == LastLogged(id).raw
                results == get_all_certificates(rows)
            IN  \E i \in DOMAIN results :
                    /\ results[i]["id"] = id
                    /\ \A k \in DOMAIN raw :
                        /\ k \in DOMAIN results[i]
                        /\ results[i][k] = raw[k]

\* the fields the normalizer lists do round-trip
C20_ListedFieldsRoundTrip ==
    \A id \in Ids :
        (UpsertsOf(id) # {} /\ LastLogged(id).op = "page") =>
            LET raw == LastLogged(id).raw
                results == get_all_certificates(rows)
            IN  \E i \in DOMAIN results :
                    /\ results[i]["id"] = id
                    /\ \A k \in DOMAIN raw \ {"dn", "sha1"} :
                        /\ k \in DOMAIN results[i]
                        /\ results[i][k] = raw[k]

\* the upserts of pages, each with the raw record it came from
PageUpserts == { i \in DOMAIN log : log[i].op = "page" }

\* C21: normalization makes certhash present: the normalized record of a raw
\* record that has certhash carries that certhash, and the normalized record of
\* a raw record that lacks certhash but has sha1 carries the sha1 as certhash
C21_CerthashFallsBackToSha1 ==
    \A i \in PageUpserts :
        LET raw == log[i].raw
            cert == log[i].cert
        IN  /\ "certhash" \in DOMAIN raw => cert["certhash"] = raw["certhash"]
            /\ ("certhash" \notin DOMAIN raw /\ "sha1" \in DOMAIN raw)
                    => cert["certhash"] = raw["sha1"]

\* what the code does: certhash is copied when the raw record has it, and is
\* None when it has not, whatever its sha1
C21_CerthashCopiedOrNone ==
    \A i \in PageUpserts :
        LET raw == log[i].raw
            cert == log[i].cert
        IN  /\ "certhash" \in DOMAIN raw => cert["certhash"] = raw["certhash"]
            /\ "certhash" \notin DOMAIN raw => cert["certhash"] = None

\* a page with a record that has sha1 and no certhash, and one that has both,
\* was normalized and upserted
C21_Reached ==
    /\ \E i \in PageUpserts : /\ "certhash" \notin DOMAIN log[i].raw
                               /\ "sha1" \in DOMAIN log[i].raw
    /\ \E i \in PageUpserts : /\ "certhash" \in DOMAIN log[i].raw
                               /\ "sha1" \in DOMAIN log[i].raw

---------------------------------------------------------------------------
(* Initial states and specifications *)

InitSyncWith(budgets, upstreams, spent, sizes) ==
    /\ sync_state = NoRow
    /\ upstream \in upstreams
    /\ page_size \in sizes
    /\ stop_event = FALSE
    /\ thread = NoThread
    /\ worker = [w \in Workers |-> DeadWorker]
    /\ caller = [c \in Callers |-> "idle"]
    /\ budget = budgets
    /\ ret = [c \in Callers |-> "none"]
    /\ faults = spent
    /\ hist = NoHist

InitSync(budgets, upstreams, spent) ==
    InitSyncWith(budgets, upstreams, spent, {PageSize})

InitAuth(calls) ==
    /\ token = NoToken
    /\ token_issue_time = 0
    /\ lock = Free
    /\ clock = 0
    /\ issued = 0
    /\ auth_calls = 0
    /\ client = [t \in Threads |-> IdleClient]
    /\ reads = << >>
    /\ a_budget = calls

InitMap(calls) ==
    /\ inventory_mapping = << >>
    /\ m_thread = NoThread
    /\ m_is_running = FALSE
    /\ mapper = [m \in Mappers |-> DeadMapper]
    /\ m_caller = [c \in Callers |-> "idle"]
    /\ m_budget = calls
    /\ m_hist = NoMapHist

InitStore(calls) ==
    /\ rows = << >>
    /\ pending \in calls
    /\ log = << >>

\* the state after construction, for the given call budgets, upstreams and
\* number of failures already spent
InitWith(budgets, upstreams, spent) ==
    /\ InitSync(budgets, upstreams, spent)
    /\ certificates = NoCerts
    /\ InitAuth([t \in Threads |-> 0])
    /\ InitMap(0)
    /\ InitStore({<< >>})

\* one control caller at a time, any upstream, failures injected
Init == InitWith([c \in Callers |-> IF c = "c1" THEN MaxCalls ELSE 0],
                 Upstreams, 0)

\* one control caller with MaxLiveCalls calls, for the sweeps' progress
InitLive == InitWith([c \in Callers |-> IF c = "c1" THEN MaxLiveCalls ELSE 0],
                     Upstreams, 0)

\* one control caller, runners of every page size up to MaxPageSize
InitPages ==
    /\ InitSyncWith([c \in Callers |-> IF c = "c1" THEN MaxLiveCalls ELSE 0],
                    Upstreams, 0, 1 .. MaxPageSize)
    /\ certificates = NoCerts
    /\ InitAuth([t \in Threads |-> 0])
    /\ InitMap(0)
    /\ InitStore({<< >>})

\* two concurrent control callers, an upstream of one record, failures injected
RaceUpstreams ==
    { s \in Upstreams : /\ Len(s) = 1
                        /\ s[1].validFromDate = Anchor + TicksPerDay }

InitRace == InitWith([c \in Callers |-> IF c = "c1" THEN MaxCalls - 1 ELSE 1],
                     RaceUpstreams, 0)

\* the token cache and the client alone
InitToken ==
    /\ InitSync([c \in Callers |-> 0], {<< >>}, 0)
    /\ certificates = NoCerts
    /\ InitAuth([t \in Threads |->
                    IF t = "t1" THEN MaxTokenCalls - 1 ELSE 1])
    /\ InitMap(0)
    /\ InitStore({<< >>})

\* the annotation and the catalog alone
InitAnnotation ==
    /\ InitSync([c \in Callers |-> 0], {<< >>}, 0)
    /\ certificates = NoCerts
    /\ InitAuth([t \in Threads |-> 0])
    /\ InitMap(MaxMapCalls)
    /\ InitStore({<< >>})

\* the Store alone, for every list of up to MaxBatches calls
InitCatalog ==
    /\ InitSync([c \in Callers |-> 0], {<< >>}, 0)
    /\ certificates = NoCerts
    /\ InitAuth([t \in Threads |-> 0])
    /\ InitMap(0)
    /\ InitStore(UNION { [1 .. n -> StoreCalls] : n \in 0 .. MaxBatches })

NextStore ==
    \/ store_save_certificates
    \/ store_save_page

Next ==
    \/ \E c \in Callers :
        \/ start_full_sync(c) \/ start_full_sync_clear(c)
        \/ start_full_sync_event(c) \/ start_full_sync_save(c)
        \/ resume_sync(c) \/ resume_sync_event(c) \/ resume_sync_save(c)
        \/ new_thread(c) \/ thread_start(c)
        \/ stop_sync(c) \/ stop_sync_join(c) \/ stop_sync_save(c)
        \/ reset_state(c) \/ reset_state_clear(c)
    \/ \E w \in Workers :
        \/ loop_begin(w) \/ loop_year_check(w) \/ loop_page_check(w)
        \/ loop_fetch(w) \/ loop_save_certs(w) \/ loop_get_total(w)
        \/ loop_save_ckpt(w) \/ loop_error(w) \/ loop_finish(w)

NextAuth ==
    \/ Tick
    \/ \E t \in Threads :
        \/ \E force_refresh \in BOOLEAN : get_token(t, force_refresh)
        \/ get_token_lock(t)
        \/ get_token_fetch(t)
        \/ fetch_certificates_call(t)
        \/ fetch_certificates_loop(t)
        \/ fetch_certificates_post(t)

NextMap ==
    \/ save_mapping_data
    \/ save_page
    \/ clear_data
    \/ \E c \in Callers :
        \/ start_mapping_process(c)
        \/ start_mapping_flag(c)
        \/ start_mapping_thread(c)
        \/ start_mapping_start(c)
    \/ \E m \in Mappers :
        \/ map_query(m)
        \/ map_row(m)
        \/ map_commit(m)
        \/ map_finally(m)

Spec == Init /\ [][Next]_vars

SpecRace == InitRace /\ [][Next]_vars

SpecPages == InitPages /\ [][Next]_vars

\* a started worker thread is scheduled: a step of _run_sync_loop that stays
\* possible is eventually taken
WorkerStep(w) ==
    \/ loop_begin(w) \/ loop_year_check(w) \/ loop_page_check(w)
    \/ loop_fetch(w) \/ loop_save_certs(w) \/ loop_get_total(w)
    \/ loop_save_ckpt(w) \/ loop_error(w) \/ loop_finish(w)

SpecLive == InitLive /\ [][Next]_vars /\ \A w \in Workers : WF_vars(WorkerStep(w))

SpecAuth == InitToken /\ [][NextAuth]_vars

SpecMap == InitAnnotation /\ [][NextMap]_vars

SpecStore == InitCatalog /\ [][NextStore]_vars

=============================================================================
